---- MODULE Spec2Model ----
(***************************************************************************)
(* Go_todo: JWT issuance and validation (pkg/utils JWTManager), the        *)
(* authentication service and handlers, the AuthMiddleware gate and the    *)
(* ownership-scoped todo service, as state machines.                       *)
(*                                                                         *)
(* Time is counted in ticks; one second is TicksPerSec ticks, so that the  *)
(* one-second resolution of jwt.NumericDate is visible.                    *)
(***************************************************************************)
EXTENDS Integers, Sequences, FiniteSets, TLC

VARIABLES
    now,        \* the wall clock read by time.Now(), in ticks
    secret,     \* JWTManager.secret
    expiry,     \* JWTManager.expiry, in ticks
    tok,        \* codec: the token string under test
    res,        \* codec: the result of the last ValidateToken(tok)
    wasExpired, \* codec: tok has been rejected as expired before
    genIn,      \* codec: the arguments and result of the last GenerateToken
    users,      \* the users table (sequence, index = ID)
    areq,       \* the requests to /api/auth/* in flight
    todos,      \* the todos table (sequence, index = ID)
    treq        \* the requests to the protected /api/todos routes in flight

vars == <<now, secret, expiry, tok, res, wasExpired, genIn, users, areq, todos, treq>>

codecVars == <<tok, res, wasExpired, genIn>>
authVars == <<users, areq>>
todoVars == <<todos, treq>>

----------------------------------------------------------------------------
(* Bounds *)

TicksPerSec == 2
MaxTime == 7
MaxSkew == 1
MaxExpirySec == 2
MaxAlter == 4
MaxSysTime == 3
NumProcs == 2
MaxTodos == 2
MaxTodoTime == 1
MaxListTodos == 3

----------------------------------------------------------------------------
(* Configuration: config.Load and NewJWTManager *)

Secrets == {"test-secret", "other-secret"}
Issuer == "todo-api"

\* getDurationEnv: a whole number of seconds (any sign)
ExpiryChoices == {s * TicksPerSec : s \in -1..MaxExpirySec}

\* the expiries the service is run with: two seconds and more.  A token of
\* a shorter expiry can be expired before its first use (its expires-at is
\* truncated to the second, and GenerateToken may straddle a second).
ServiceExpiryChoices == {s * TicksPerSec : s \in 2..MaxExpirySec}

UserIDs == {1, 2}
Emails == {"alice@example.com", "Alice@example.com"}

----------------------------------------------------------------------------
(* jwt.NumericDate: time claims are carried with TimePrecision = 1 second *)

Truncate(t) == t - (t % TicksPerSec)

NewNumericDate(t) == Truncate(t)

----------------------------------------------------------------------------
(* Token strings.  A compact JWS is header.payload.signature; it is kept   *)
(* as a record of the decoded header algorithm, the decoded claims, the    *)
(* signature bytes but the last four bits (mac), and the last base64url     *)
(* character of the signature segment (last, 0..63).                       *)

HMACAlgs == {"HS256", "HS384"}
OtherAlgs == {"none", "RS256"}
UnknownAlgs == {"XX"}
Algs == HMACAlgs \cup OtherAlgs \cup UnknownAlgs

Garbage == [kind |-> "garbage"]

\* HMAC over the signing string (header.payload) under key: an injective
\* function of its arguments
Mac(alg, key, claims) == [alg |-> alg, key |-> key, claims |-> claims]

\* the last four bits of the signature: some function of the MAC
LastNibble(mac) ==
    (mac.claims.user_id * 7 + mac.claims.exp * 3 + mac.claims.nbf + 5) % 16

\* base64.RawURLEncoding.EncodeToString: a 32-byte signature ends in a
\* character that carries four signature bits and two zero padding bits
EncodeLast(nibble) == nibble * 4

\* base64.RawURLEncoding.DecodeString (not Strict): the two trailing padding
\* bits are dropped without being checked
DecodeLast(ch) == ch \div 4

\* token.SignedString(key) for jwt.NewWithClaims(method, claims)
SignedString(alg, claims, key) ==
    [kind |-> "jwt", alg |-> alg, claims |-> claims,
     mac |-> Mac(alg, key, claims),
     last |-> EncodeLast(LastNibble(Mac(alg, key, claims)))]

\* JWTManager.GenerateToken; t1, t2, t3 are its three readings of time.Now()
GenerateTokenAt(key, ttl, userID, email, t1, t2, t3) ==
    SignedString("HS256",
        [user_id |-> userID, email |-> email, iss |-> Issuer,
         exp |-> NewNumericDate(t1 + ttl),
         iat |-> NewNumericDate(t2),
         nbf |-> NewNumericDate(t3)],
        key)

\* a GenerateToken that takes the subject from the wrong variable
GenerateToken_WrongSubject(userID, email, t1, t2, t3) ==
    GenerateTokenAt(secret, expiry, userID + 1, email, t1, t2, t3)

GenerateToken(userID, email, t1, t2, t3) ==
    GenerateTokenAt(secret, expiry, userID, email, t1, t2, t3)

NoClaims == [user_id |-> 0, email |-> "", iss |-> "", exp |-> 0, iat |-> 0, nbf |-> 0]

Rejected(err) == [ok |-> FALSE, claims |-> NoClaims, err |-> err]

\* the key function handed to jwt.ParseWithClaims
KeyFuncAccepts(alg) == alg \in HMACAlgs

\* a server that remembers the token it issued last and verifies no other
SignatureValid_LastIssued(t, key) == t = tok

\* SigningMethodHMAC.Verify: recompute the MAC and compare with the decoded
\* signature segment
SignatureValid(t, key) ==
    /\ t.mac = Mac(t.alg, key, t.claims)
    /\ DecodeLast(t.last) = LastNibble(Mac(t.alg, key, t.claims))

\* jwt.Validator: exp and nbf against time.Now(), no leeway
\* a validator that skips the expiry check
NotExpired_Skipped(claims, t) == TRUE

NotExpired(claims, t) == t < claims.exp
NotBeforeOK(claims, t) == t >= claims.nbf

\* JWTManager.ValidateToken at clock reading t
ValidateToken(t, at) ==
    IF t.kind # "jwt" THEN Rejected("token is malformed")
    ELSE IF t.alg \in UnknownAlgs THEN Rejected("token is unverifiable")
    ELSE IF ~KeyFuncAccepts(t.alg) THEN Rejected("token is unverifiable")
    ELSE IF ~SignatureValid(t, secret) THEN Rejected("signature is invalid")
    ELSE IF ~NotExpired(t.claims, at) THEN Rejected("token is expired")
    ELSE IF ~NotBeforeOK(t.claims, at) THEN Rejected("token is not valid yet")
    ELSE [ok |-> TRUE, claims |-> t.claims, err |-> ""]

----------------------------------------------------------------------------
(* The codec on its own: the manager issues a token; the issued string, or *)
(* a string derived from it, is handed to ValidateToken while the clock    *)
(* advances.                                                               *)

NoResult == [done |-> FALSE, ok |-> FALSE, claims |-> NoClaims, err |-> ""]
NoGen == [valid |-> FALSE, userID |-> 0, email |-> "", t1 |-> 0, t2 |-> 0, t3 |-> 0,
          token |-> Garbage]

\* NewJWTManager takes any time.Duration: also a fraction of a second
CodecExpiryChoices == ExpiryChoices \cup {-1, 1}

\* the token string with its last character replaced by the d-th next one of
\* the base64url alphabet
Altered(t, d) == [t EXCEPT !.last = (t.last + d) % 64]

\* the header rewritten to declare alg, the signature kept
Redeclared(t, alg) == [t EXCEPT !.alg = alg]

\* the header rewritten to declare alg and the token signed again under key
Resigned(t, alg, key) == SignedString(alg, t.claims, key)

\* the payload rewritten to name another user, the signature kept
Resubjected(t, userID) == [t EXCEPT !.claims.user_id = userID]

CodecInit ==
    /\ now \in 0..(TicksPerSec - 1)
    /\ secret = "test-secret"
    /\ expiry \in CodecExpiryChoices
    /\ tok = Garbage
    /\ res = NoResult
    /\ wasExpired = FALSE
    /\ genIn = NoGen
    /\ users = <<>>
    /\ areq = <<>>
    /\ todos = <<>>
    /\ treq = <<>>

\* time passes; the last validation result is of the past
CodecTick ==
    /\ now < MaxTime
    /\ now' = now + 1
    /\ tok' = Garbage
    /\ res' = NoResult
    /\ UNCHANGED <<secret, expiry, wasExpired, genIn, authVars, todoVars>>

\* j.GenerateToken(userID, email); the clock may advance between its reads
CodecGenerate(userID, email, d1, d2) ==
    /\ now + d1 + d2 <= MaxTime
    /\ genIn' = [valid |-> TRUE, userID |-> userID, email |-> email,
                 t1 |-> now, t2 |-> now + d1, t3 |-> now + d1 + d2,
                 token |-> GenerateToken(userID, email, now, now + d1, now + d1 + d2)]
    /\ now' = now + d1 + d2
    /\ tok' = Garbage
    /\ res' = NoResult
    /\ wasExpired' = FALSE
    /\ UNCHANGED <<secret, expiry, authVars, todoVars>>

\* j.ValidateToken(t) at the present clock reading
Validate(t) ==
    /\ tok' = t
    /\ res' = [done |-> TRUE] @@ ValidateToken(t, now)
    /\ UNCHANGED <<now, secret, expiry, genIn, authVars, todoVars>>

\* the token as issued
CodecValidateIssued ==
    /\ genIn.valid
    /\ Validate(genIn.token)
    /\ wasExpired' = (wasExpired \/ ValidateToken(genIn.token, now).err = "token is expired")

\* the issued token with its last character altered
CodecValidateAltered(d) ==
    /\ genIn.valid
    /\ Validate(Altered(genIn.token, d))
    /\ UNCHANGED wasExpired

\* the issued token with another declared algorithm, signed again or not
CodecValidateCrafted(alg, key, resign) ==
    /\ genIn.valid
    /\ Validate(IF resign THEN Resigned(genIn.token, alg, key)
                          ELSE Redeclared(genIn.token, alg))
    /\ UNCHANGED wasExpired

\* the issued token with another subject in its payload
CodecValidateResubjected(userID) ==
    /\ genIn.valid
    /\ userID # genIn.userID
    /\ Validate(Resubjected(genIn.token, userID))
    /\ UNCHANGED wasExpired

\* a token of another JWTManager (its own secret, its clock possibly ahead)
CodecValidateForeign(key, ahead) ==
    /\ genIn.valid
    /\ Validate(GenerateTokenAt(key, expiry, genIn.userID, genIn.email,
                                now + ahead, now + ahead, now + ahead))
    /\ UNCHANGED wasExpired

\* a string that is no JWS
CodecValidateGarbage ==
    /\ Validate(Garbage)
    /\ UNCHANGED wasExpired

CodecNext ==
    \/ CodecTick
    \/ \E u \in UserIDs, d1 \in 0..MaxSkew : \E d2 \in 0..(MaxSkew - d1) :
          CodecGenerate(u, "alice@example.com", d1, d2)
    \/ CodecValidateIssued
    \/ \E d \in 1..MaxAlter : CodecValidateAltered(d)
    \/ \E a \in Algs, k \in Secrets, r \in BOOLEAN : CodecValidateCrafted(a, k, r)
    \/ \E u \in UserIDs : CodecValidateResubjected(u)
    \/ \E k \in Secrets, a \in {0, TicksPerSec} : CodecValidateForeign(k, a)
    \/ CodecValidateGarbage

SpecCodec == CodecInit /\ [][CodecNext]_vars

----------------------------------------------------------------------------
(* Claims about the codec (SpecCodec) *)

IssuedUnchanged == genIn.valid /\ res.done /\ tok = genIn.token

\* C7: round trip.  A token issued by GenerateToken(id, email) under a
\* positive expiry and validated unchanged, with the same secret, at a time
\* inside its validity window (not before its not-before, before its
\* expires-at) is accepted, and the claims returned carry the user id, the
\* email and the issuer it was issued with.
C7_RoundTrip ==
    (IssuedUnchanged /\ expiry > 0
        /\ genIn.token.claims.nbf <= now /\ now < genIn.token.claims.exp)
    => (/\ res.ok
        /\ res.claims.user_id = genIn.userID
        /\ res.claims.email = genIn.email
        /\ res.claims.iss = Issuer)

C7_Witness ==
    /\ IssuedUnchanged /\ expiry > 0 /\ res.ok
    /\ now > genIn.t3
    /\ res.claims.user_id = genIn.userID

\* C8: authenticity.  ValidateToken returns claims only for a token string
\* that is exactly what signing its header and payload with the manager's
\* own secret under an HMAC algorithm produces: not for an issued token with
\* its last byte altered, not for a token signed under another secret, not
\* for a token that declares a non-HMAC algorithm.
C8_Authentic ==
    (res.done /\ res.ok)
    => (/\ tok.kind = "jwt"
        /\ tok.alg \in HMACAlgs
        /\ tok = SignedString(tok.alg, tok.claims, secret))

\* C9: time-bounded validity.  No token is accepted at a time before its
\* not-before or after its expires-at; a token issued with an expiry of -1
\* is never accepted; a token that was once rejected as expired is not
\* accepted at any later time.
C9_TimeBounded ==
    /\ (res.done /\ tok.kind = "jwt"
          /\ (now < tok.claims.nbf \/ now > tok.claims.exp)) => ~res.ok
    /\ (IssuedUnchanged /\ expiry = -1) => ~res.ok
    /\ (IssuedUnchanged /\ wasExpired) => ~res.ok

C9_Witness ==
    /\ IssuedUnchanged /\ expiry > 0 /\ wasExpired
    /\ now > genIn.token.claims.exp
    /\ res.err = "token is expired"

\* C19: every rejection ValidateToken reports is the value it reports for an
\* expired token: while the issued token is expired, whatever string is
\* rejected (malformed, of another algorithm family, with a signature that
\* does not match, or the expired token itself) gets the error the expired
\* token gets.
C19_OpaqueFailure ==
    (res.done /\ ~res.ok /\ genIn.valid /\ now >= genIn.token.claims.exp)
    => res.err = ValidateToken(genIn.token, now).err

\* C21: every token GenerateToken issues under an expiry of whole seconds
\* carries not-before = issued-at, expires-at - issued-at = the configured
\* expiry, and the configured issuer.
C21_OneInstant ==
    (genIn.valid /\ expiry % TicksPerSec = 0)
    => (/\ genIn.token.claims.nbf = genIn.token.claims.iat
        /\ genIn.token.claims.exp - genIn.token.claims.iat = expiry
        /\ genIn.token.claims.iss = Issuer)

----------------------------------------------------------------------------
(* Responses: pkg/utils/response.go *)

\* a nil *models.Todo
NoTodo == [ID |-> 0, UserID |-> 0, Title |-> "", Description |-> "", Completed |-> FALSE,
           Priority |-> "", DueDate |-> 0, CreatedAt |-> 0, Deleted |-> FALSE]

NoResp == [status |-> 0, code |-> "", message |-> "", details |-> "",
           id |-> 0, email |-> "", token |-> Garbage, todo |-> NoTodo,
           todos |-> <<>>, total |-> 0, page |-> 0, perPage |-> 0, totalPages |-> 0,
           completed |-> 0, pending |-> 0]

Error(status, code, message, details) ==
    [NoResp EXCEPT !.status = status, !.code = code, !.message = message,
                   !.details = details]

ValidationError(details) == Error(400, "VALIDATION_ERROR", "Validation failed", details)

UnauthorizedError(message) ==
    Error(401, "UNAUTHORIZED",
          IF message = "" THEN "Authentication required" ELSE message, "")

NotFoundError(resource) == Error(404, "NOT_FOUND", resource \o " not found", "")

ConflictError(message) == Error(409, "CONFLICT", message, "")

InternalError(message) ==
    Error(500, "INTERNAL_ERROR",
          IF message = "" THEN "An internal error occurred" ELSE message, "")

BadRequestError(message) == Error(400, "BAD_REQUEST", message, "")

Success(status, message) == [NoResp EXCEPT !.status = status, !.message = message]

\* utils.Created / utils.OK with an AuthResponse{User, Token}
AuthSuccess(status, message, user, token) ==
    [Success(status, message) EXCEPT !.id = user.ID, !.email = user.Email,
                                     !.token = token]

----------------------------------------------------------------------------
(* AuthMiddleware.  An Authorization header is the sequence of the pieces  *)
(* that single spaces separate, each piece a word or a token string: <<>>  *)
(* is the absent header, <<Word("Bearer"), t>> is "Bearer <t>",            *)
(* <<Word("Bearer"), Word(""), t>> has two spaces.                         *)

Word(text) == [kind |-> "word", text |-> text]

Schemes == {"Bearer", "bearer", "BEARER", "Basic"}

\* a scheme compared as it is written
ToLower_Exact(w) == w

\* strings.ToLower on a scheme word
ToLower(w) == IF w \in {"Bearer", "bearer", "BEARER"} THEN "bearer"
              ELSE IF w = "Basic" THEN "basic" ELSE w

\* strings.SplitN(authHeader, " ", 2): the first piece, and the rest as one
\* string
SplitN2(h) == IF Len(h) = 1 THEN <<h[1]>> ELSE <<h[1], Tail(h)>>

IsBearer(piece) == piece.kind = "word" /\ ToLower(piece.text) = "bearer"

\* the token string parts[1]: a single token piece is that token; a rest that
\* still holds spaces, or is a mere word, is no well-formed JWS
TokenStringOf(rest) ==
    IF Len(rest) = 1 /\ rest[1].kind = "jwt" THEN rest[1] ELSE Garbage

Aborted(message) ==
    [ok |-> FALSE, user_id |-> 0, user_email |-> "", resp |-> UnauthorizedError(message)]

\* the middleware at clock reading at: abort with 401, or c.Set and c.Next
AuthMiddleware(h, at) ==
    IF h = <<>> THEN Aborted("Authorization header required")
    ELSE IF Len(SplitN2(h)) # 2 \/ ~IsBearer(SplitN2(h)[1])
         THEN Aborted("Invalid authorization format. Use: Bearer <token>")
    ELSE LET v == ValidateToken(TokenStringOf(SplitN2(h)[2]), at) IN
         IF ~v.ok THEN Aborted("Invalid or expired token")
         ELSE [ok |-> TRUE, user_id |-> v.claims.user_id,
               user_email |-> v.claims.email, resp |-> NoResp]

Bearer(t) == <<Word("Bearer"), t>>

----------------------------------------------------------------------------
(* The users table and UserRepository.  models.User declares Email with a  *)
(* uniqueIndex; rows are compared by the email string as stored.           *)

Hash(password) == <<"bcrypt", password>>

\* bcrypt reads at most 72 bytes of a password: GenerateFromPassword of
\* golang.org/x/crypto returns ErrPasswordTooLong for a longer one, and
\* releases before that error existed hash the first 72 bytes
PasswordTooLong(password) == Len(password) > 72

\* bcrypt.CompareHashAndPassword(hash, password) == nil
CompareHashAndPassword(hash, password) == hash = Hash(password)

EmailRows(email) == {i \in DOMAIN users : users[i].Email = email}

\* userRepo.ExistsByEmail
ExistsByEmail(email) == EmailRows(email) # {}

\* userRepo.FindByEmail: the row, or nil (ID 0)
NoUser == [ID |-> 0, Email |-> "", Password |-> <<>>]
FindByEmail(email) ==
    IF EmailRows(email) = {} THEN NoUser ELSE users[CHOOSE i \in EmailRows(email) : TRUE]

\* a users table without the unique index
UniqueViolation_Off(email) == FALSE

\* the unique index on users.email rejects the insert
UniqueViolation(email) == \E i \in DOMAIN users : users[i].Email = email

\* the address of an email: letter case does not tell two mailboxes apart
NormalizedEmail(email) ==
    IF email = "Alice@example.com" THEN "alice@example.com" ELSE email

AddressRegistered(email) ==
    \E i \in DOMAIN users : NormalizedEmail(users[i].Email) = NormalizedEmail(email)

\* userRepo.Create: the row gets the next ID
NewUser(email, password) ==
    [ID |-> Len(users) + 1, Email |-> email, Password |-> Hash(password)]

----------------------------------------------------------------------------
(* /api/auth: AuthHandler and AuthService, one request per process         *)

Procs == 1..NumProcs

\* a password of 73 characters, within the binding's max=100
LongPassword ==
    "ppppppppppppppppppppppppppppppppppppppppppppppppppppppppppppppppppppppppp"

\* a password of 101 characters, beyond the binding's max=100
OverlongPassword ==
    "qqqqqqqqqqqqqqqqqqqqqqqqqqqqqqqqqqqqqqqqqqqqqqqqqqqqqqqqqqqqqqqqqqqqqqqqqqqqqqqqqqqqqqqqqqqqqqqqqqqqq"

RegisterPasswords == {"password123", "short", LongPassword, OverlongPassword}
LoginPasswords == {"password123", "wrongpassword", ""}
RequestEmails == Emails \cup {"invalid-email"}

\* binding:"required,email"
IsEmail(email) == email \in Emails

\* a binding without the upper bound
RegisterPasswordOK_NoMax(password) == Len(password) >= 6

\* binding:"required,min=6,max=100"
RegisterPasswordOK(password) == Len(password) >= 6 /\ Len(password) <= 100

\* binding:"required"
LoginPasswordOK(password) == password # ""

\* dup records, for a Register request, whether its address was registered
\* (in any letter case) when the request arrived
AIdle == [op |-> "idle", pc |-> "idle", email |-> "", password |-> "",
          cause |-> "", dup |-> FALSE, resp |-> NoResp]

\* the response is written
AuthDone(p, cause, resp) ==
    areq' = [areq EXCEPT ![p].pc = "done", ![p].password = "", ![p].cause = cause,
                         ![p].resp = resp]

\* a written response is delivered before anything else is looked at: it
\* changes nothing another request reads
NoneDone == \A q \in Procs : areq[q].pc # "done"

AuthInit ==
    /\ now \in 0..(TicksPerSec - 1)
    /\ secret = "test-secret"
    /\ expiry \in ServiceExpiryChoices
    /\ tok = Garbage
    /\ res = NoResult
    /\ wasExpired = FALSE
    /\ genIn = NoGen
    /\ users = <<>>
    /\ areq = [p \in Procs |-> AIdle]
    /\ todos = <<>>
    /\ treq = <<>>

AuthTick ==
    /\ NoneDone
    /\ now < MaxSysTime
    /\ now' = now + 1
    /\ UNCHANGED <<secret, expiry, codecVars, authVars, todoVars>>

\* AuthHandler.Register: c.ShouldBindJSON(&req)
RegisterBind(p, email, password) ==
    /\ NoneDone
    /\ areq[p].pc = "idle"
    /\ UNCHANGED now
    /\ IF IsEmail(email) /\ RegisterPasswordOK(password)
       THEN areq' = [areq EXCEPT ![p] = [AIdle EXCEPT !.op = "register", !.pc = "exists",
                                           !.email = email, !.password = password,
                                           !.dup = AddressRegistered(email)]]
       ELSE areq' = [areq EXCEPT ![p] = [AIdle EXCEPT !.op = "register", !.pc = "done",
                                           !.cause = "binding",
                                           !.resp = ValidationError("binding")]]
    /\ UNCHANGED <<secret, expiry, codecVars, users, todoVars>>

\* AuthService.Register: the pre-check s.userRepo.ExistsByEmail(req.Email)
RegisterExists(p, dbFails) ==
    /\ NoneDone
    /\ areq[p].op = "register" /\ areq[p].pc = "exists"
    /\ UNCHANGED now
    /\ IF dbFails
       THEN AuthDone(p, "db_error", InternalError("Failed to register user"))
       ELSE IF ExistsByEmail(areq[p].email)
       THEN AuthDone(p, "taken", ConflictError("email already registered"))
       ELSE areq' = [areq EXCEPT ![p].pc = "create"]
    /\ UNCHANGED <<secret, expiry, codecVars, users, todoVars>>

\* the response to an err that AuthService.Register returns from
\* s.userRepo.Create
RegisterCreateFailed(cause) == InternalError("Failed to register user")

\* a Register that asks for the token before the insert has set user.ID
RegisterToken_BeforeCreate(user, t1, t2, t3) ==
    GenerateToken(0, user.Email, t1, t2, t3)

\* AuthService.Register: s.jwtManager.GenerateToken(user.ID, user.Email)
RegisterToken(user, t1, t2, t3) == GenerateToken(user.ID, user.Email, t1, t2, t3)

\* AuthService.Register from the hash on: bcrypt.GenerateFromPassword,
\* s.userRepo.Create(user), then s.jwtManager.GenerateToken(user.ID,
\* user.Email), then utils.Created
RegisterCreate(p, hashFails, dbFails, d1, d2) ==
    /\ NoneDone
    /\ areq[p].op = "register" /\ areq[p].pc = "create"
    /\ IF PasswordTooLong(areq[p].password) /\ hashFails
       THEN /\ AuthDone(p, "hash_error", RegisterCreateFailed("hash_error"))
            /\ UNCHANGED <<now, users>>
       ELSE IF dbFails
       THEN /\ AuthDone(p, "db_error", RegisterCreateFailed("db_error"))
            /\ UNCHANGED <<now, users>>
       ELSE IF UniqueViolation(areq[p].email)
       THEN /\ AuthDone(p, "unique_violation", RegisterCreateFailed("unique_violation"))
            /\ UNCHANGED <<now, users>>
       ELSE LET user == NewUser(areq[p].email, areq[p].password) IN
            /\ now + d1 + d2 <= MaxSysTime
            /\ now' = now + d1 + d2
            /\ users' = Append(users, user)
            /\ AuthDone(p, "",
                 AuthSuccess(201, "User registered successfully", user,
                     RegisterToken(user, now, now + d1, now + d1 + d2)))
    /\ UNCHANGED <<secret, expiry, codecVars, todoVars>>

\* AuthHandler.Login: c.ShouldBindJSON(&req)
LoginBind(p, email, password) ==
    /\ NoneDone
    /\ areq[p].pc = "idle"
    /\ UNCHANGED now
    /\ IF IsEmail(email) /\ LoginPasswordOK(password)
       THEN areq' = [areq EXCEPT ![p] = [AIdle EXCEPT !.op = "login", !.pc = "find",
                                           !.email = email, !.password = password]]
       ELSE areq' = [areq EXCEPT ![p] = [AIdle EXCEPT !.op = "login", !.pc = "done",
                                           !.cause = "binding",
                                           !.resp = ValidationError("binding")]]
    /\ UNCHANGED <<secret, expiry, codecVars, users, todoVars>>

\* a Login that names the cause
LoginUnknownEmail_Named == UnauthorizedError("user not found")

\* the AuthHandler.Login response to the error of an unknown email
LoginUnknownEmail == UnauthorizedError("invalid email or password")

\* the AuthHandler.Login response to the error of a password mismatch
LoginWrongPassword == UnauthorizedError("invalid email or password")

\* AuthService.Login: s.userRepo.FindByEmail, bcrypt.CompareHashAndPassword,
\* GenerateToken; AuthHandler.Login answers every error with
\* UnauthorizedError(c, err.Error())
LoginFind(p, dbFails, d1, d2) ==
    /\ NoneDone
    /\ areq[p].op = "login" /\ areq[p].pc = "find"
    /\ UNCHANGED users
    /\ IF dbFails
       THEN /\ AuthDone(p, "db_error", UnauthorizedError("db: connection refused"))
            /\ UNCHANGED now
       ELSE LET user == FindByEmail(areq[p].email) IN
            IF user = NoUser
            THEN /\ AuthDone(p, "unknown_email", LoginUnknownEmail)
                 /\ UNCHANGED now
            ELSE IF ~CompareHashAndPassword(user.Password, areq[p].password)
            THEN /\ AuthDone(p, "wrong_password", LoginWrongPassword)
                 /\ UNCHANGED now
            ELSE /\ now + d1 + d2 <= MaxSysTime
                 /\ now' = now + d1 + d2
                 /\ AuthDone(p, "",
                      AuthSuccess(200, "Login successful", user,
                          GenerateToken(user.ID, user.Email, now, now + d1, now + d1 + d2)))
    /\ UNCHANGED <<secret, expiry, codecVars, todoVars>>

\* the response has been delivered; the process takes the next request
AuthFinish(p) ==
    /\ areq[p].pc = "done"
    /\ areq' = [areq EXCEPT ![p] = AIdle]
    /\ UNCHANGED <<now, secret, expiry, codecVars, users, todoVars>>

AuthNext ==
    \/ AuthTick
    \/ \E p \in Procs, e \in RequestEmails, w \in RegisterPasswords : RegisterBind(p, e, w)
    \/ \E p \in Procs, f \in BOOLEAN : RegisterExists(p, f)
    \/ \E p \in Procs, hf \in BOOLEAN, f \in BOOLEAN, d1 \in 0..MaxSkew :
          \E d2 \in 0..(MaxSkew - d1) : RegisterCreate(p, hf, f, d1, d2)
    \/ \E p \in Procs, e \in RequestEmails, w \in LoginPasswords : LoginBind(p, e, w)
    \/ \E p \in Procs, f \in BOOLEAN, d1 \in 0..MaxSkew : \E d2 \in 0..(MaxSkew - d1) :
          LoginFind(p, f, d1, d2)
    \/ \E p \in Procs : AuthFinish(p)

SpecAuth == AuthInit /\ [][AuthNext]_vars

----------------------------------------------------------------------------
(* Claims about /api/auth (SpecAuth) *)

RegisterDone(p) == areq[p].op = "register" /\ areq[p].pc = "done"
LoginDone(p) == areq[p].op = "login" /\ areq[p].pc = "done"

\* the causes that C1 sets aside: the request fails validation, its email is
\* registered (at the pre-check or at the insert), or the database fails
Excused == {"binding", "taken", "unique_violation", "db_error"}

\* C1: a Register with a valid email and password whose email is not
\* registered (neither at the pre-check nor at the insert) and that meets no
\* persistence failure succeeds with 201; and the token of every successful
\* Register, presented as "Bearer <token>" to AuthMiddleware at once, is
\* accepted, and the user_id and user_email injected are the id that
\* Register returned and the email that was registered.
C1_RegisterThenGate ==
    \A p \in Procs : RegisterDone(p) =>
        /\ (areq[p].cause \notin Excused) => areq[p].resp.status = 201
        /\ (areq[p].resp.status = 201) =>
            LET g == AuthMiddleware(Bearer(areq[p].resp.token), now) IN
            /\ g.ok
            /\ g.user_id = areq[p].resp.id
            /\ g.user_email = areq[p].email
            /\ areq[p].resp.id \in DOMAIN users
            /\ users[areq[p].resp.id].Email = areq[p].email

\* C5: registering an email whose address is already registered fails with
\* EmailTaken (409 CONFLICT) and no token, and no two persisted identities
\* have emails that normalize to the same address.
C5_DuplicateRejected ==
    /\ \A i, j \in DOMAIN users :
          i # j => NormalizedEmail(users[i].Email) # NormalizedEmail(users[j].Email)
    /\ \A p \in Procs :
          (RegisterDone(p) /\ areq[p].dup /\ areq[p].cause # "db_error") =>
              /\ areq[p].resp.status = 409
              /\ areq[p].resp.code = "CONFLICT"
              /\ areq[p].resp.token = Garbage

InvalidCredentials == UnauthorizedError("invalid email or password")

\* C6: a Login with a registered email and a wrong password and a Login with
\* an email that is not registered get the same response in every component
\* (status, code, message, details, data).
C6_LoginIndistinguishable ==
    \A p \in Procs :
        (LoginDone(p) /\ areq[p].cause \in {"unknown_email", "wrong_password"})
        => areq[p].resp = InvalidCredentials

C6_Witness ==
    \E p \in Procs : LoginDone(p) /\ areq[p].cause = "wrong_password"
                     /\ areq[p].resp.status = 401

\* C10: a Register whose insert the unique index rejects, after its own
\* pre-check passed, is answered with EmailTaken (409 CONFLICT).
C10_LateConflict ==
    \A p \in Procs :
        (RegisterDone(p) /\ areq[p].cause = "unique_violation")
        => (areq[p].resp.status = 409 /\ areq[p].resp.code = "CONFLICT")

\* the step in which the Register of p is answered with a token
RegisterIssues(p) ==
    /\ areq[p].pc # "done"
    /\ areq'[p].op = "register" /\ areq'[p].pc = "done"
    /\ areq'[p].resp.token # Garbage

\* C11: under every interleaving of Register requests no two rows of the
\* users table hold the same email, rows once written stay, and a Register
\* is answered with a token only in a step that writes the first row of its
\* email: of the registrations of one email at most one returns a token.
C11_UniqueEmail ==
    [][/\ \A i, j \in DOMAIN users' : i # j => users'[i].Email # users'[j].Email
       /\ SubSeq(users', 1, Len(users)) = users
       /\ \A p \in Procs : RegisterIssues(p) =>
             /\ ~ExistsByEmail(areq'[p].email)
             /\ Len(users') = Len(users) + 1
             /\ users'[Len(users')].Email = areq'[p].email]_vars

C11_Witness ==
    \E p \in Procs :
        /\ RegisterDone(p)
        /\ areq[p].cause = "unique_violation"
        /\ areq[p].resp.token = Garbage
        /\ Cardinality(EmailRows(areq[p].email)) = 1

\* C12: a Register that is answered with a token is answered 201, and the
\* token names an identity that is in the users table under the id and email
\* of the token; a Register that fails at validation, at the pre-check, at
\* the hash or at the insert is answered without a token.
C12_PersistThenIssue ==
    \A p \in Procs : RegisterDone(p) =>
        /\ (areq[p].resp.token # Garbage) =>
              /\ areq[p].resp.status = 201
              /\ areq[p].resp.token.claims.user_id \in DOMAIN users
              /\ users[areq[p].resp.token.claims.user_id].Email =
                    areq[p].resp.token.claims.email
        /\ (areq[p].cause \in {"binding", "taken", "hash_error", "db_error",
                               "unique_violation"}) =>
              areq[p].resp.token = Garbage

C12_Witness ==
    \E p, q \in Procs :
        /\ RegisterDone(p)
        /\ areq[p].resp.token # Garbage
        /\ areq[p].resp.token.claims.user_id = Len(users)
        /\ areq[q].op = "register" /\ areq[q].pc = "create"

\* C23: a Register request gets past the binding only with a well-formed
\* email and a password of 6 to 100 characters; every other Register request
\* is answered in the step it arrives, with 400 VALIDATION_ERROR and no
\* token, and that step leaves the users table as it was.
C23_ValidateFirst ==
    [][\A p \in Procs :
          (areq[p].pc = "idle" /\ areq'[p].op = "register") =>
              \/ /\ areq'[p].pc = "exists"
                 /\ areq'[p].email \in Emails
                 /\ Len(areq'[p].password) >= 6
                 /\ Len(areq'[p].password) <= 100
              \/ /\ areq'[p].pc = "done"
                 /\ areq'[p].cause = "binding"
                 /\ areq'[p].resp.status = 400
                 /\ areq'[p].resp.code = "VALIDATION_ERROR"
                 /\ areq'[p].resp.token = Garbage
                 /\ areq'[p].resp.id = 0
                 /\ users' = users]_vars

C23_Witness ==
    \E p, q \in Procs :
        /\ RegisterDone(p)
        /\ areq[p].cause = "binding"
        /\ areq[p].resp.status = 400
        /\ areq[q].op = "register" /\ areq[q].pc = "create"
        /\ Len(users) >= 1

\* the text of the error the database driver returned
DriverErrorText == "db: connection refused"

\* C18: a Register or Login that meets a persistence or hashing failure is
\* answered 500 INTERNAL_ERROR with a generic message: the response carries
\* no text of the underlying error and is of no other error kind.
C18_InternalGeneric ==
    \A p \in Procs :
        (areq[p].pc = "done" /\ areq[p].cause \in {"db_error", "hash_error"}) =>
            /\ areq[p].resp.status = 500
            /\ areq[p].resp.code = "INTERNAL_ERROR"
            /\ areq[p].resp.message # DriverErrorText
            /\ areq[p].resp.details = ""

----------------------------------------------------------------------------
(* The todos table and TodoRepository.  Rows are never removed: Delete     *)
(* sets DeletedAt, and every query of the model carries gorm's             *)
(* "deleted_at IS NULL".                                                   *)

TodoIDs == 1..(MaxTodos + 1)

\* todoRepo.FindByIDAndUserID: the row, or nil
FindByIDAndUserID(id, userID) ==
    IF id \in DOMAIN todos /\ todos[id].UserID = userID /\ ~todos[id].Deleted
    THEN todos[id] ELSE NoTodo

\* a lookup by ID alone, as todoRepo.FindByID does
FindByIDAndUserID_AnyOwner(id, userID) ==
    IF id \in DOMAIN todos /\ ~todos[id].Deleted THEN todos[id] ELSE NoTodo

\* the lookup of TodoService.GetByID
GetLookup(id, userID) == FindByIDAndUserID(id, userID)

\* the lookup of TodoService.Update and TodoService.Delete
OwnedLookup(id, userID) == FindByIDAndUserID(id, userID)

\* todoRepo.Update: db.Save writes every column of the struct
Save(todo) == [todos EXCEPT ![todo.ID] = todo]

\* todoRepo.Delete: the soft delete by ID
SoftDelete(id) ==
    IF id \in DOMAIN todos THEN [todos EXCEPT ![id].Deleted = TRUE] ELSE todos

\* the rows a query of ListByUserID selects with no owner condition
Matching_AllUsers(userID, filter) ==
    {i \in DOMAIN todos :
        /\ ~todos[i].Deleted
        /\ (filter # "") => (todos[i].Completed = (filter = "true"))}

\* ListByUserID: Where("user_id = ?", userID), and Where("completed = ?")
\* when the filter is given; filter is the query value of "completed"
Matching(userID, filter) ==
    {i \in DOMAIN todos :
        /\ todos[i].UserID = userID
        /\ ~todos[i].Deleted
        /\ (filter # "") => (todos[i].Completed = (filter = "true"))}

\* Order("created_at DESC"): the orders in which a query may return the rows
\* S.  The statement names no second sort key, so rows of equal created_at
\* come in an order that SQL leaves to the database, for each query anew
CreatedDesc(S) ==
    {ord \in [1..Cardinality(S) -> S] :
        /\ \A k, l \in 1..Cardinality(S) : k # l => ord[k] # ord[l]
        /\ \A k, l \in 1..Cardinality(S) :
              k < l => todos[ord[k]].CreatedAt >= todos[ord[l]].CreatedAt}

\* Offset((page - 1) * perPage).Limit(perPage) of the rows in the order ids
Slice(ids, page, perPage) ==
    LET first == (page - 1) * perPage + 1
        last == IF page * perPage < Len(ids) THEN page * perPage ELSE Len(ids) IN
    [k \in 1..(IF last >= first THEN last - first + 1 ELSE 0) |-> todos[ids[first + k - 1]]]

\* ListByUserID: query.Offset(offset).Limit(perPage).Order("created_at DESC")
\* .Find(&todos): the results the query may give
FindPage(userID, filter, page, perPage) ==
    {Slice(ord, page, perPage) : ord \in CreatedDesc(Matching(userID, filter))}

\* TodoService.List: "Apply defaults"
ListPage(page) == IF page < 1 THEN 1 ELSE page
ListPerPage(perPage) == IF perPage < 1 \/ perPage > 100 THEN 10 ELSE perPage

\* int(math.Ceil(float64(total) / float64(perPage)))
TotalPages(total, perPage) == (total + perPage - 1) \div perPage

\* todoRepo.CountByUserID
CountByUserID(userID) ==
    Cardinality({i \in DOMAIN todos : todos[i].UserID = userID /\ ~todos[i].Deleted})

\* todoRepo.CountCompletedByUserID
CountCompletedByUserID(userID) ==
    Cardinality({i \in DOMAIN todos :
                    todos[i].UserID = userID /\ todos[i].Completed /\ ~todos[i].Deleted})

----------------------------------------------------------------------------
(* /api/todos behind AuthMiddleware, one request per process               *)

EmailOf(userID) == IF userID = 1 THEN "alice@example.com" ELSE "bob@example.com"

\* the token a client got from Login at clock reading 0
ClientToken(userID) == GenerateToken(userID, EmailOf(userID), 0, 0, 0)

\* a token issued so long ago that it has expired
StaleToken ==
    GenerateToken(1, EmailOf(1), 0 - expiry - TicksPerSec, 0 - expiry - TicksPerSec,
                  0 - expiry - TicksPerSec)

Headers ==
    {<<>>, <<ClientToken(1)>>, <<Word("Basic"), ClientToken(1)>>,
     Bearer(ClientToken(1)), <<Word("bearer"), ClientToken(2)>>,
     Bearer(Resubjected(ClientToken(1), 2)), Bearer(StaleToken), Bearer(Garbage)}

Titles == {"a"}

\* models.UpdateTodoRequest: a nil pointer is an absent field.  The values a
\* request supplies are fixed; a due date is a day number, 0 for none
Body(t, d, c, r, u) ==
    [hasTitle |-> t, title |-> "b", hasDescription |-> d, description |-> "d",
     hasCompleted |-> c, completed |-> TRUE, hasPriority |-> r, priority |-> "high",
     hasDueDate |-> u, dueDate |-> 1]

\* the request with every field, and the request with none
UpdateBodies == {Body(h, h, h, h, h) : h \in BOOLEAN}
NoBody == Body(FALSE, FALSE, FALSE, FALSE, FALSE)

TIdle == [op |-> "idle", pc |-> "idle", hdr |-> <<>>, ran |-> FALSE, userID |-> 0,
          id |-> 0, body |-> NoBody, todo |-> NoTodo, filter |-> "", page |-> 0,
          perPage |-> 0, count |-> 0, resp |-> NoResp]

TNoneDone == \A q \in Procs : treq[q].pc # "done"

\* the request as AuthMiddleware leaves it: aborted with its 401, or handed
\* to the handler with user_id set
\* a gate that looks the subject of the token up in the users table
Gated_UserLookup(op, h, id, body) ==
    LET g == AuthMiddleware(h, now) IN
    IF g.ok /\ g.user_id \in DOMAIN users /\ users[g.user_id].Email = g.user_email
    THEN [TIdle EXCEPT !.op = op, !.pc = "handler", !.hdr = h, !.ran = TRUE,
                       !.userID = g.user_id, !.id = id, !.body = body]
    ELSE [TIdle EXCEPT !.op = op, !.pc = "done", !.hdr = h,
                       !.resp = UnauthorizedError("Invalid or expired token")]

Gated_NoAbort(op, h, id, body) ==
    LET g == AuthMiddleware(h, now) IN
    [TIdle EXCEPT !.op = op, !.pc = "handler", !.hdr = h, !.ran = TRUE,
                  !.userID = g.user_id, !.id = id, !.body = body]

Gated(op, h, id, body) ==
    LET g == AuthMiddleware(h, now) IN
    IF g.ok
    THEN [TIdle EXCEPT !.op = op, !.pc = "handler", !.hdr = h, !.ran = TRUE,
                       !.userID = g.user_id, !.id = id, !.body = body]
    ELSE [TIdle EXCEPT !.op = op, !.pc = "done", !.hdr = h, !.resp = g.resp]

TodoSuccess(status, message, todo) ==
    [Success(status, message) EXCEPT !.id = todo.ID, !.todo = todo]

\* the handler has written its response
Finished(r, resp) ==
    [r EXCEPT !.pc = "done", !.body = NoBody, !.todo = NoTodo, !.count = 0, !.resp = resp]

TodoInit ==
    /\ now = 0
    /\ secret = "test-secret"
    /\ expiry \in ServiceExpiryChoices
    /\ tok = Garbage
    /\ res = NoResult
    /\ wasExpired = FALSE
    /\ genIn = NoGen
    /\ users = <<[ID |-> 1, Email |-> EmailOf(1), Password |-> Hash("password123")],
                 [ID |-> 2, Email |-> EmailOf(2), Password |-> Hash("password123")]>>
    /\ areq = <<>>
    /\ todos = <<>>
    /\ treq = [p \in Procs |-> TIdle]

TodoTick ==
    /\ TNoneDone
    /\ now < MaxTodoTime
    /\ now' = now + 1
    /\ UNCHANGED <<secret, expiry, codecVars, authVars, todoVars>>

\* a Create that takes the owner from a user_id of the request body
CreateOwner_FromBody(userID, bodyUserID) ==
    IF bodyUserID # 0 THEN bodyUserID ELSE userID

\* TodoService.Create: UserID: userID, the user_id of the gin context.
\* models.CreateTodoRequest has no owner field: a user_id in the JSON body
\* (bodyUserID, 0 when absent) is dropped by ShouldBindJSON
CreateOwner(userID, bodyUserID) == userID

\* POST /api/todos: AuthMiddleware, TodoHandler.Create, TodoService.Create
TodoCreate(p, h, title, bodyUserID) ==
    /\ TNoneDone
    /\ treq[p].pc = "idle"
    /\ LET r == Gated("create", h, 0, NoBody)
           todo == [ID |-> Len(todos) + 1, UserID |-> CreateOwner(r.userID, bodyUserID),
                    Title |-> title, Description |-> "", Completed |-> FALSE,
                    Priority |-> "medium", DueDate |-> 0, CreatedAt |-> now,
                    Deleted |-> FALSE] IN
       IF r.pc = "done"
       THEN treq' = [treq EXCEPT ![p] = r] /\ UNCHANGED todos
       ELSE IF title = ""
       THEN treq' = [treq EXCEPT ![p] = Finished(r, ValidationError("binding"))]
            /\ UNCHANGED todos
       ELSE /\ Len(todos) < MaxTodos
            /\ todos' = Append(todos, todo)
            /\ treq' = [treq EXCEPT ![p] =
                          Finished(r, TodoSuccess(201, "Todo created successfully", todo))]
    /\ UNCHANGED <<now, secret, expiry, codecVars, authVars>>

\* GET /api/todos/:id: AuthMiddleware, TodoHandler.GetByID, TodoService.GetByID
TodoGetByID(p, h, id) ==
    /\ TNoneDone
    /\ treq[p].pc = "idle"
    /\ LET r == Gated("get", h, id, NoBody) IN
       IF r.pc = "done"
       THEN treq' = [treq EXCEPT ![p] = r]
       ELSE LET todo == GetLookup(id, r.userID) IN
            IF todo = NoTodo
            THEN treq' = [treq EXCEPT ![p] = Finished(r, NotFoundError("Todo"))]
            ELSE treq' = [treq EXCEPT ![p] =
                            Finished(r, TodoSuccess(200, "Todo retrieved", todo))]
    /\ UNCHANGED <<now, secret, expiry, codecVars, authVars, todos>>

\* PUT and DELETE /api/todos/:id up to the service's lookup: AuthMiddleware,
\* the handler, then s.todoRepo.FindByIDAndUserID(todoID, userID)
TodoFind(p, op, h, id, body) ==
    /\ TNoneDone
    /\ treq[p].pc = "idle"
    /\ LET r == Gated(op, h, id, body) IN
       IF r.pc = "done"
       THEN treq' = [treq EXCEPT ![p] = r]
       ELSE LET todo == OwnedLookup(id, r.userID) IN
            IF todo = NoTodo
            THEN treq' = [treq EXCEPT ![p] = Finished(r, NotFoundError("Todo"))]
            ELSE treq' = [treq EXCEPT ![p] = [r EXCEPT !.pc = "write", !.todo = todo]]
    /\ UNCHANGED <<now, secret, expiry, codecVars, authVars, todos>>

\* an Update that hands the todo over to the other user along with a new title
Applied_Transfer(todo, body) ==
    [todo EXCEPT !.Title = IF body.hasTitle THEN body.title ELSE @,
                 !.UserID = IF body.hasTitle THEN 3 - @ ELSE @]

\* an Update bound to plain values: an absent field arrives as its supplied
\* default and is written
Applied_Overwrite(todo, body) ==
    [todo EXCEPT !.Title = body.title, !.Description = body.description,
                 !.Completed = body.completed, !.Priority = body.priority,
                 !.DueDate = body.dueDate]

\* TodoService.Update: the fields present are applied to the row read
Applied(todo, body) ==
    [todo EXCEPT !.Title = IF body.hasTitle THEN body.title ELSE @,
                 !.Description = IF body.hasDescription THEN body.description ELSE @,
                 !.Completed = IF body.hasCompleted THEN body.completed ELSE @,
                 !.Priority = IF body.hasPriority THEN body.priority ELSE @,
                 !.DueDate = IF body.hasDueDate THEN body.dueDate ELSE @]

\* TodoService.Update from "Apply updates" on: s.todoRepo.Update(todo).
\* db.Save first runs UPDATE ... WHERE id = ? AND deleted_at IS NULL.  When
\* the row was soft-deleted after the service read it, that statement
\* matches no row and gorm falls back: releases with the upsert fallback
\* (INSERT ... ON CONFLICT DO UPDATE of all columns) rewrite the row, deletion
\* mark included; releases with the plain INSERT fallback fail on the
\* primary key and the handler answers 500.  upserts tells the two apart
TodoUpdateSave(p, upserts) ==
    /\ TNoneDone
    /\ treq[p].op = "update" /\ treq[p].pc = "write"
    /\ LET todo == Applied(treq[p].todo, treq[p].body) IN
       IF todos[treq[p].id].Deleted /\ ~upserts
       THEN /\ UNCHANGED todos
            /\ treq' = [treq EXCEPT ![p] =
                          Finished(treq[p], InternalError("Failed to update todo"))]
       ELSE /\ todos' = Save(todo)
            /\ treq' = [treq EXCEPT ![p] =
                          Finished(treq[p],
                              TodoSuccess(200, "Todo updated successfully", todo))]
    /\ UNCHANGED <<now, secret, expiry, codecVars, authVars>>

\* TodoService.Delete: s.todoRepo.Delete(todoID), then utils.NoContent
TodoDeleteExec(p) ==
    /\ TNoneDone
    /\ treq[p].op = "delete" /\ treq[p].pc = "write"
    /\ todos' = SoftDelete(treq[p].id)
    /\ treq' = [treq EXCEPT ![p] = Finished(treq[p], Success(204, ""))]
    /\ UNCHANGED <<now, secret, expiry, codecVars, authVars>>

\* the response has been delivered; the process takes the next request
TodoFinish(p) ==
    /\ treq[p].pc = "done"
    /\ treq' = [treq EXCEPT ![p] = TIdle]
    /\ UNCHANGED <<now, secret, expiry, codecVars, authVars, todos>>

TodoNext ==
    \/ TodoTick
    \/ \E p \in Procs, h \in Headers, t \in Titles \cup {""}, u \in {0} \cup UserIDs :
          TodoCreate(p, h, t, u)
    \/ \E p \in Procs, h \in Headers, i \in TodoIDs : TodoGetByID(p, h, i)
    \/ \E p \in Procs, h \in Headers, i \in TodoIDs, b \in UpdateBodies :
          TodoFind(p, "update", h, i, b)
    \/ \E p \in Procs, h \in Headers, i \in TodoIDs : TodoFind(p, "delete", h, i, NoBody)
    \/ \E p \in Procs, u \in BOOLEAN : TodoUpdateSave(p, u)
    \/ \E p \in Procs : TodoDeleteExec(p)
    \/ \E p \in Procs : TodoFinish(p)

SpecTodo == TodoInit /\ [][TodoNext]_vars

----------------------------------------------------------------------------
(* Ownership and the gate of the protected routes                          *)

\* the request of p has been answered by its handler
Answered(p, op) == treq[p].op = op /\ treq[p].pc = "done" /\ treq[p].ran

\* the todo the request of p names is stored, live, and owned by another user
OthersTodo(r) ==
    /\ r.id \in DOMAIN todos
    /\ ~todos[r.id].Deleted
    /\ todos[r.id].UserID # r.userID

\* the step is the arrival of a request of p
Arrives(p) == treq[p].pc = "idle" /\ treq'[p].pc # "idle"

\* C2: GetByID by an authenticated user who is not the owner of the todo is
\* answered 404 NOT_FOUND "Todo not found", the very response an ID that no
\* row has gets; it is never 403 and carries nothing of the row.
C2_ReadIsolation ==
    \A p \in Procs :
        /\ (Answered(p, "get") /\ OthersTodo(treq[p]))
              => /\ treq[p].resp = NotFoundError("Todo")
                 /\ treq[p].resp.status # 403
                 /\ treq[p].resp.todo = NoTodo
        /\ (Answered(p, "get") /\ treq[p].id \notin DOMAIN todos)
              => treq[p].resp = NotFoundError("Todo")

C2_Witness ==
    \E p \in Procs :
        /\ Answered(p, "get")
        /\ OthersTodo(treq[p])
        /\ treq[p].userID = 2
        /\ treq[p].resp.status = 404

\* C3: an Update or Delete that arrives from an authenticated user who is not
\* the owner of the todo it names ends in that step with 404 NOT_FOUND "Todo
\* not found", as it does for an ID that no row has, and the step changes no
\* row of the store.
C3_WriteIsolation ==
    [][\A p \in Procs :
          (/\ Arrives(p)
           /\ treq'[p].op \in {"update", "delete"}
           /\ treq'[p].ran
           /\ (OthersTodo(treq'[p]) \/ treq'[p].id \notin DOMAIN todos))
          => /\ treq'[p].pc = "done"
             /\ treq'[p].resp = NotFoundError("Todo")
             /\ todos' = todos]_vars

C3_Witness ==
    \E p \in Procs :
        /\ Answered(p, "update")
        /\ OthersTodo(treq[p])
        /\ treq[p].resp.status = 404
        /\ \E q \in Procs \ {p} : treq[q].op = "delete" /\ treq[q].pc = "write"

\* the header is present, is "Bearer <token>" in any letter case, and
\* ValidateToken accepts the token at the clock reading t
CredentialAccepted(h, t) ==
    /\ h # <<>>
    /\ Len(h) = 2
    /\ h[1].kind = "word"
    /\ h[1].text \in {"Bearer", "bearer", "BEARER"}
    /\ h[2].kind = "jwt"
    /\ ValidateToken(h[2], t).ok

\* C4: the handler of a protected route runs exactly for the requests whose
\* Authorization header is present, is a Bearer credential, and holds a token
\* ValidateToken accepts; every other request ends on arrival with 401
\* UNAUTHORIZED, no handler step is ever taken for it, and the store changes
\* only in steps of requests the gate let through.
C4_GateFirst ==
    [][/\ \A p \in Procs : Arrives(p) =>
             /\ treq'[p].ran <=> CredentialAccepted(treq'[p].hdr, now)
             /\ ~treq'[p].ran =>
                   /\ treq'[p].pc = "done"
                   /\ treq'[p].resp.status = 401
                   /\ treq'[p].resp.code = "UNAUTHORIZED"
                   /\ todos' = todos
       /\ \A p \in Procs :
             (treq[p].pc \notin {"idle", "done"} /\ treq'[p] # treq[p]) => treq[p].ran
       /\ (todos' # todos) =>
             \E p \in Procs : treq'[p] # treq[p] /\ treq'[p].ran]_vars

C4_Witness ==
    \E p \in Procs :
        /\ treq[p].op = "create"
        /\ treq[p].pc = "done"
        /\ ~treq[p].ran
        /\ treq[p].hdr = Bearer(StaleToken)
        /\ treq[p].resp.status = 401
        /\ Len(todos) = 1

\* C13: the owner of a new todo is the user_id that AuthMiddleware injected
\* for the Create request that wrote it, whatever user_id the body carries;
\* and no step of any request changes the owner or the id of a stored todo,
\* or removes a row.
C13_OwnerFixed ==
    [][/\ Len(todos') >= Len(todos)
       /\ \A i \in DOMAIN todos :
             todos'[i].UserID = todos[i].UserID /\ todos'[i].ID = todos[i].ID
       /\ (Len(todos') > Len(todos)) =>
             \E p \in Procs :
                 /\ Arrives(p)
                 /\ treq'[p].op = "create"
                 /\ AuthMiddleware(treq'[p].hdr, now).ok
                 /\ todos'[Len(todos')].UserID = AuthMiddleware(treq'[p].hdr, now).user_id]_vars

C13_Witness ==
    \E p \in Procs :
        /\ Answered(p, "update")
        /\ treq[p].resp.status = 200
        /\ treq[p].userID = 2
        /\ todos[treq[p].id].UserID = 2
        /\ todos[treq[p].id].Title = "b"
        /\ \E i \in DOMAIN todos : todos[i].UserID = 1

----------------------------------------------------------------------------
(* GET /api/todos and GET /api/todos/stats, among the writes of            *)
(* authenticated users                                                     *)

\* the Authorization headers of the two logged-in clients
ClientHeaders == {Bearer(ClientToken(1)), <<Word("bearer"), ClientToken(2)>>}

\* the values of the query parameter "completed"
Filters == {"", "true", "false"}

\* TodoHandler.List up to the first query of ListByUserID: query.Count(&total).
\* page and perPage are the query parameters as strconv.Atoi returns them
\* (when absent: 1 and 10)
TodoListCount(p, h, filter, page, perPage) ==
    /\ TNoneDone
    /\ treq[p].pc = "idle"
    /\ LET r == Gated("list", h, 0, NoBody) IN
       IF r.pc = "done"
       THEN treq' = [treq EXCEPT ![p] = r]
       ELSE treq' = [treq EXCEPT ![p] =
                       [r EXCEPT !.pc = "find", !.filter = filter,
                                 !.page = page, !.perPage = perPage,
                                 !.count = Cardinality(Matching(r.userID, filter))]]
    /\ UNCHANGED <<now, secret, expiry, codecVars, authVars, todos>>

\* ListByUserID from the second query on, then utils.OK
TodoListFind(p) ==
    /\ TNoneDone
    /\ treq[p].op = "list" /\ treq[p].pc = "find"
    /\ \E rows \in FindPage(treq[p].userID, treq[p].filter, ListPage(treq[p].page),
                             ListPerPage(treq[p].perPage)) :
          treq' = [treq EXCEPT ![p] =
                     Finished(treq[p],
                         [Success(200, "Todos retrieved") EXCEPT
                             !.todos = rows,
                             !.total = treq[p].count,
                             !.page = ListPage(treq[p].page),
                             !.perPage = ListPerPage(treq[p].perPage),
                             !.totalPages =
                                 TotalPages(treq[p].count, ListPerPage(treq[p].perPage))])]
    /\ UNCHANGED <<now, secret, expiry, codecVars, authVars, todos>>

\* TodoHandler.GetStats up to the first count of TodoService.GetStats
TodoStatsTotal(p, h) ==
    /\ TNoneDone
    /\ treq[p].pc = "idle"
    /\ LET r == Gated("stats", h, 0, NoBody) IN
       IF r.pc = "done"
       THEN treq' = [treq EXCEPT ![p] = r]
       ELSE treq' = [treq EXCEPT ![p] =
                       [r EXCEPT !.pc = "completed", !.count = CountByUserID(r.userID)]]
    /\ UNCHANGED <<now, secret, expiry, codecVars, authVars, todos>>

\* TodoService.GetStats from CountCompletedByUserID on, then utils.OK
TodoStatsCompleted(p) ==
    /\ TNoneDone
    /\ treq[p].op = "stats" /\ treq[p].pc = "completed"
    /\ LET total == treq[p].count
           completed == CountCompletedByUserID(treq[p].userID) IN
       treq' = [treq EXCEPT ![p] =
                  Finished(treq[p],
                      [Success(200, "Statistics retrieved") EXCEPT
                          !.total = total, !.completed = completed,
                          !.pending = total - completed])]
    /\ UNCHANGED <<now, secret, expiry, codecVars, authVars, todos>>

ReadNext ==
    \/ \E p \in Procs, h \in ClientHeaders, u \in {0} \cup UserIDs :
          TodoCreate(p, h, "a", u)
    \/ \E p \in Procs, h \in ClientHeaders, i \in DOMAIN todos, b \in UpdateBodies :
          TodoFind(p, "update", h, i, b)
    \/ \E p \in Procs, h \in ClientHeaders, i \in DOMAIN todos :
          TodoFind(p, "delete", h, i, NoBody)
    \/ \E p \in Procs, h \in ClientHeaders, i \in DOMAIN todos : TodoGetByID(p, h, i)
    \/ \E p \in Procs, u \in BOOLEAN : TodoUpdateSave(p, u)
    \/ \E p \in Procs : TodoDeleteExec(p)
    \/ \E p \in Procs, h \in ClientHeaders, f \in Filters : TodoListCount(p, h, f, 1, 10)
    \/ \E p \in Procs : TodoListFind(p)
    \/ \E p \in Procs, h \in ClientHeaders : TodoStatsTotal(p, h)
    \/ \E p \in Procs : TodoStatsCompleted(p)
    \/ \E p \in Procs : TodoFinish(p)

SpecRead == TodoInit /\ [][ReadNext]_vars

\* the live todos of a user, and those among them a "completed" filter keeps
OwnLive(userID) == {i \in DOMAIN todos : todos[i].UserID = userID /\ ~todos[i].Deleted}
OwnLiveKept(userID, filter) ==
    {i \in OwnLive(userID) :
        filter = "" \/ (filter = "true" /\ todos[i].Completed)
                    \/ (filter = "false" /\ ~todos[i].Completed)}

\* C14: List and GetStats answer for the user_id that AuthMiddleware
\* injected, and each of their queries reads exactly the caller's own live
\* todos: the total of List counts them, the rows of List are those todos as
\* stored, and the two counts of GetStats count them; a todo of another user
\* or a soft-deleted todo is in none of the results.
C14_OwnOnly ==
    [][\A p \in Procs :
          /\ (Arrives(p) /\ treq'[p].op \in {"list", "stats"} /\ treq'[p].ran) =>
                treq'[p].userID = AuthMiddleware(treq'[p].hdr, now).user_id
          /\ (Arrives(p) /\ treq'[p].op = "list" /\ treq'[p].ran) =>
                treq'[p].count =
                    Cardinality(OwnLiveKept(treq'[p].userID, treq'[p].filter))
          /\ (treq[p].op = "list" /\ treq[p].pc = "find" /\ treq'[p].pc = "done") =>
                LET rows == treq'[p].resp.todos IN
                /\ {rows[k].ID : k \in DOMAIN rows} =
                       OwnLiveKept(treq[p].userID, treq[p].filter)
                /\ \A k \in DOMAIN rows :
                       rows[k] = todos[rows[k].ID] /\ rows[k].UserID = treq[p].userID
          /\ (Arrives(p) /\ treq'[p].op = "stats" /\ treq'[p].ran) =>
                treq'[p].count = Cardinality(OwnLive(treq'[p].userID))
          /\ (treq[p].op = "stats" /\ treq[p].pc = "completed" /\ treq'[p].pc = "done") =>
                treq'[p].resp.completed =
                    Cardinality({i \in OwnLive(treq[p].userID) : todos[i].Completed})]_vars

C14_Witness ==
    \E p \in Procs :
        /\ Answered(p, "list")
        /\ Len(treq[p].resp.todos) = 1
        /\ treq[p].resp.total = 1
        /\ \E i, j \in DOMAIN todos :
              /\ todos[i].UserID # treq[p].userID /\ ~todos[i].Deleted
              /\ todos[j].UserID = treq[p].userID /\ ~todos[j].Deleted

\* the step in which the service of p, after its lookup, calls the repository
Writes(p, op) == treq[p].op = op /\ treq[p].pc = "write" /\ treq'[p].pc = "done"

\* C24: whatever requests run between the ownership-checked lookup of a
\* Delete and its soft delete by ID, the todo that the soft delete marks is
\* owned by the user of the request, no other row changes in that step, and
\* no row is marked deleted in any other kind of step.
C24_DeleteOwnOnly ==
    [][/\ \A p \in Procs : Writes(p, "delete") =>
             /\ treq[p].id \in DOMAIN todos
             /\ todos[treq[p].id].UserID = treq[p].userID
             /\ todos'[treq[p].id].Deleted
             /\ \A i \in DOMAIN todos : i # treq[p].id => todos'[i] = todos[i]
       /\ \A i \in DOMAIN todos : (~todos[i].Deleted /\ todos'[i].Deleted) =>
             \E p \in Procs :
                 Writes(p, "delete") /\ treq[p].id = i /\ treq[p].userID = todos[i].UserID]_vars

C24_Witness ==
    \E p, q \in Procs :
        /\ Answered(p, "delete")
        /\ treq[p].resp.status = 204
        /\ todos[treq[p].id].Deleted
        /\ treq[q].op = "update" /\ treq[q].pc = "write" /\ treq[q].id = treq[p].id
        /\ \E i \in DOMAIN todos : todos[i].UserID # treq[p].userID /\ ~todos[i].Deleted

\* C25: a Delete is answered 204 only if its soft delete marked a row that
\* was live: a todo that is deleted already is not deleted with success
\* again, also when the two Delete requests of its owner run concurrently.
C25_DeleteOnce ==
    [][\A p \in Procs :
          (Writes(p, "delete") /\ treq'[p].resp.status = 204) =>
              ~todos[treq[p].id].Deleted]_vars

\* C26: once a todo is soft-deleted it stays so: the deletion mark is never
\* taken back, every GetByID, Update and Delete that arrives for its ID is
\* answered 404 NOT_FOUND, an Update that read the todo before the delete and
\* writes it afterwards is answered 404 NOT_FOUND as well, and no List
\* returns the todo.
C26_DeletedForGood ==
    [][\A i \in DOMAIN todos : todos[i].Deleted =>
          /\ todos'[i].Deleted
          /\ \A p \in Procs :
                /\ (Arrives(p) /\ treq'[p].ran /\ treq'[p].id = i
                      /\ treq'[p].op \in {"get", "update", "delete"})
                   => (treq'[p].pc = "done" /\ treq'[p].resp = NotFoundError("Todo"))
                /\ (Writes(p, "update") /\ treq[p].id = i)
                   => treq'[p].resp = NotFoundError("Todo")
                /\ (treq[p].op = "list" /\ treq[p].pc = "find" /\ treq'[p].pc = "done")
                   => \A k \in DOMAIN treq'[p].resp.todos : treq'[p].resp.todos[k].ID # i]_vars

\* C28: every GetStats response has 0 <= completed <= total and pending =
\* total - completed >= 0, whatever Create, Update and Delete requests of
\* the same user run between its two counts.
C28_StatsConsistent ==
    \A p \in Procs : Answered(p, "stats") =>
        /\ 0 <= treq[p].resp.completed
        /\ treq[p].resp.completed <= treq[p].resp.total
        /\ treq[p].resp.pending = treq[p].resp.total - treq[p].resp.completed
        /\ treq[p].resp.pending >= 0

----------------------------------------------------------------------------
(* PUT /api/todos/:id on stored todos: concurrent requests that each supply *)
(* one field, and requests of any set of fields one at a time              *)

\* a todo as TodoService.Create stores it for a request with a title alone
Stored(id, userID) ==
    [NoTodo EXCEPT !.ID = id, !.UserID = userID, !.Title = "a", !.Priority = "medium"]

\* each user has created one todo
UpdateInit ==
    /\ now = 0
    /\ secret = "test-secret"
    /\ expiry \in ServiceExpiryChoices
    /\ tok = Garbage
    /\ res = NoResult
    /\ wasExpired = FALSE
    /\ genIn = NoGen
    /\ users = <<[ID |-> 1, Email |-> EmailOf(1), Password |-> Hash("password123")],
                 [ID |-> 2, Email |-> EmailOf(2), Password |-> Hash("password123")]>>
    /\ areq = <<>>
    /\ todos = <<Stored(1, 1), Stored(2, 2)>>
    /\ treq = [p \in Procs |-> TIdle]

\* a request with the title alone, and a request with completed alone
RaceBodies == {Body(TRUE, FALSE, FALSE, FALSE, FALSE), Body(FALSE, FALSE, TRUE, FALSE, FALSE)}

RaceNext ==
    \/ \E p \in Procs, h \in ClientHeaders, i \in DOMAIN todos, b \in RaceBodies :
          TodoFind(p, "update", h, i, b)
    \/ \E p \in Procs, u \in BOOLEAN : TodoUpdateSave(p, u)
    \/ \E p \in Procs : TodoFinish(p)

SpecRace == UpdateInit /\ [][RaceNext]_vars

\* C27: an Update that saves takes back nothing that another Update has
\* saved since it read the row: every field its request does not supply
\* keeps the stored value.  So when two concurrent Updates of disjoint
\* fields have both completed, each supplied field holds the supplied value.
C27_NoLostUpdate ==
    [][\A p \in Procs :
          (Writes(p, "update") /\ treq'[p].resp.status = 200) =>
              LET i == treq[p].id
                  b == treq[p].body IN
              /\ ~b.hasTitle => todos'[i].Title = todos[i].Title
              /\ ~b.hasDescription => todos'[i].Description = todos[i].Description
              /\ ~b.hasCompleted => todos'[i].Completed = todos[i].Completed
              /\ ~b.hasPriority => todos'[i].Priority = todos[i].Priority
              /\ ~b.hasDueDate => todos'[i].DueDate = todos[i].DueDate]_vars

\* requests with any set of the five fields, completed given as true or false
PartialBodies ==
    {[Body(t, d, c, r, u) EXCEPT !.completed = v] :
        t \in BOOLEAN, d \in BOOLEAN, c \in BOOLEAN, r \in BOOLEAN, u \in BOOLEAN,
        v \in BOOLEAN}

\* an Update of user 1 arrives while no other request is in flight
PartialArrive(p, i, b) ==
    /\ \A q \in Procs : treq[q].pc = "idle"
    /\ TodoFind(p, "update", Bearer(ClientToken(1)), i, b)

PartialNext ==
    \/ \E p \in Procs, i \in DOMAIN todos, b \in PartialBodies : PartialArrive(p, i, b)
    \/ \E p \in Procs, u \in BOOLEAN : TodoUpdateSave(p, u)
    \/ \E p \in Procs : TodoFinish(p)

SpecPartial == UpdateInit /\ [][PartialNext]_vars

\* C29: an Update of the owner that is answered 200 sets each of title,
\* description, completed, priority and due date that its request holds to
\* the value supplied, leaves each of them that the request does not hold as
\* stored, leaves the id, the owner and the deletion mark of the todo and
\* every other todo as they were, and returns the todo as it is stored now.
C29_PartialUpdate ==
    [][\A p \in Procs :
          (Writes(p, "update") /\ treq'[p].resp.status = 200) =>
              LET i == treq[p].id
                  b == treq[p].body IN
              /\ todos'[i].Title = IF b.hasTitle THEN b.title ELSE todos[i].Title
              /\ todos'[i].Description =
                    IF b.hasDescription THEN b.description ELSE todos[i].Description
              /\ todos'[i].Completed =
                    IF b.hasCompleted THEN b.completed ELSE todos[i].Completed
              /\ todos'[i].Priority = IF b.hasPriority THEN b.priority ELSE todos[i].Priority
              /\ todos'[i].DueDate = IF b.hasDueDate THEN b.dueDate ELSE todos[i].DueDate
              /\ todos'[i].ID = todos[i].ID
              /\ todos'[i].UserID = todos[i].UserID
              /\ todos'[i].Deleted = todos[i].Deleted
              /\ DOMAIN todos' = DOMAIN todos
              /\ \A j \in DOMAIN todos : j # i => todos'[j] = todos[j]
              /\ treq'[p].resp.todo = todos'[i]]_vars

C29_Witness ==
    \E p \in Procs :
        /\ Answered(p, "update")
        /\ treq[p].resp.status = 200
        /\ treq[p].resp.todo.Title = "b"
        /\ treq[p].resp.todo.Description = ""
        /\ treq[p].resp.todo.Completed = FALSE
        /\ treq[p].resp.todo.Priority = "high"
        /\ treq[p].resp.todo.DueDate = 0
        /\ todos[2] = Stored(2, 2)

----------------------------------------------------------------------------
(* GET /api/todos?page=&per_page=&completed= over a stored table, no write *)
(* in flight                                                               *)

\* the rows of a table: todos of user 1, completed or not, live or deleted,
\* and live todos of user 2, each created at some clock reading
ListRows ==
    {[Stored(0, 1) EXCEPT !.Completed = c, !.Deleted = d, !.CreatedAt = a] :
        c \in BOOLEAN, d \in BOOLEAN, a \in 0..MaxTodoTime}
    \cup {[Stored(0, 2) EXCEPT !.CreatedAt = a] : a \in 0..MaxTodoTime}

\* the tables of up to MaxListTodos rows, IDs in the order of creation
ListTables ==
    UNION {{[i \in 1..n |-> [f[i] EXCEPT !.ID = i]] :
               f \in {g \in [1..n -> ListRows] :
                          \A i \in 1..n : \A j \in 1..n :
                              i < j => g[i].CreatedAt <= g[j].CreatedAt}} :
           n \in 0..MaxListTodos}

\* the values of the query parameters page and per_page
PageInputs == {0, 1, 2, 3}
PerPageInputs == {0, 1, 2, 100, 101}

ListInit ==
    /\ now = MaxTodoTime
    /\ secret = "test-secret"
    /\ expiry \in ServiceExpiryChoices
    /\ tok = Garbage
    /\ res = NoResult
    /\ wasExpired = FALSE
    /\ genIn = NoGen
    /\ users = <<[ID |-> 1, Email |-> EmailOf(1), Password |-> Hash("password123")],
                 [ID |-> 2, Email |-> EmailOf(2), Password |-> Hash("password123")]>>
    /\ areq = <<>>
    /\ todos \in ListTables
    /\ treq = [p \in Procs |-> TIdle]

\* a List of user 1 arrives while no other request is in flight
ListArrive(p, filter, page, perPage) ==
    /\ \A q \in Procs : treq[q].pc = "idle"
    /\ TodoListCount(p, Bearer(ClientToken(1)), filter, page, perPage)

ListNext ==
    \/ \E p \in Procs, f \in Filters, g \in PageInputs, n \in PerPageInputs :
          ListArrive(p, f, g, n)
    \/ \E p \in Procs : TodoListFind(p)
    \/ \E p \in Procs : TodoFinish(p)

SpecList == ListInit /\ [][ListNext]_vars

\* a client fetches the pages k..pages of userID one after the other, having
\* seen the todos of the pages before: no page brings a todo seen already,
\* and after the last page the todos seen are those of the collection
RECURSIVE EachOnce(_, _, _, _, _, _)
EachOnce(userID, filter, perPage, pages, k, seen) ==
    IF k > pages THEN seen = OwnLiveKept(userID, filter)
    ELSE \A rows \in FindPage(userID, filter, k, perPage) :
            LET ids == {rows[j].ID : j \in DOMAIN rows} IN
            /\ ids \cap seen = {}
            /\ EachOnce(userID, filter, perPage, pages, k + 1, seen \cup ids)

\* C30: a List answers with page < 1 replaced by 1 and per_page outside
\* 1..100 by 10, at most per_page todos, Total the number of the caller's live
\* todos that pass the completed filter, and TotalPages = ceil(Total /
\* per_page); and while nothing is written, the pages 1..TotalPages of that
\* per_page and filter together hold each of those todos exactly once.
C30_Pagination ==
    \A p \in Procs : Answered(p, "list") =>
        LET r == treq[p] IN
        /\ r.resp.page = IF r.page < 1 THEN 1 ELSE r.page
        /\ r.resp.perPage = IF r.perPage \in 1..100 THEN r.perPage ELSE 10
        /\ Len(r.resp.todos) <= r.resp.perPage
        /\ r.resp.total = Cardinality(OwnLiveKept(r.userID, r.filter))
        /\ r.resp.totalPages * r.resp.perPage >= r.resp.total
        /\ (r.resp.totalPages - 1) * r.resp.perPage < r.resp.total
        /\ r.resp.totalPages >= 0
        /\ EachOnce(r.userID, r.filter, r.resp.perPage, r.resp.totalPages, 1, {})

----------------------------------------------------------------------------
(* AuthMiddleware alone: one request at a time reaches the gate, with any  *)
(* Authorization header, over any contents of the two tables               *)

\* token strings a client may send: issued by Login at clock reading 0,
\* expired, with a changed payload, declared unsigned, signed by another
\* secret, and a string that is no JWS
GateTokens ==
    {ClientToken(1), ClientToken(2), StaleToken, Resubjected(ClientToken(1), 2),
     Redeclared(ClientToken(1), "none"),
     GenerateTokenAt("other-secret", expiry, 1, EmailOf(1), 0, 0, 0), Garbage}

\* header values, cut at their spaces: absent, a scheme alone, scheme and
\* token written together, a token alone, a scheme and an empty token, a
\* scheme and a token, two spaces between them, and two tokens
GateHeaders ==
    {<<>>, <<Word("BearereyJ")>>}
    \cup {<<Word(sch)>> : sch \in Schemes}
    \cup {<<t>> : t \in GateTokens}
    \cup {<<Word(sch), Word("")>> : sch \in Schemes}
    \cup {<<Word(sch), t>> : sch \in Schemes, t \in GateTokens}
    \cup {<<Word(sch), Word(""), t>> : sch \in Schemes, t \in GateTokens}
    \cup {<<Word(sch), t, t>> : sch \in Schemes, t \in GateTokens}

\* contents of the users table: empty, the two users, the first user alone,
\* and the first user under a changed email
UserTables ==
    {<<>>,
     <<[ID |-> 1, Email |-> EmailOf(1), Password |-> Hash("password123")]>>,
     <<[ID |-> 1, Email |-> EmailOf(2), Password |-> Hash("password123")]>>,
     <<[ID |-> 1, Email |-> EmailOf(1), Password |-> Hash("password123")],
       [ID |-> 2, Email |-> EmailOf(2), Password |-> Hash("password123")]>>}

\* contents of the todos table
TodoTables ==
    {<<>>,
     <<[NoTodo EXCEPT !.ID = 1, !.UserID = 1, !.Title = "a", !.Priority = "medium"]>>,
     <<[NoTodo EXCEPT !.ID = 1, !.UserID = 2, !.Title = "a", !.Priority = "medium",
                      !.Completed = TRUE, !.Deleted = TRUE]>>}

GateInit ==
    /\ now = 0
    /\ secret = "test-secret"
    /\ expiry \in ServiceExpiryChoices
    /\ tok = Garbage
    /\ res = NoResult
    /\ wasExpired = FALSE
    /\ genIn = NoGen
    /\ users \in UserTables
    /\ areq = <<>>
    /\ todos \in TodoTables
    /\ treq = [p \in Procs |-> TIdle]

GateTick ==
    /\ \A q \in Procs : treq[q].pc = "idle"
    /\ now < MaxTime
    /\ now' = now + 1
    /\ UNCHANGED <<secret, expiry, codecVars, authVars, todoVars>>

\* a request to a protected route passes AuthMiddleware
GateRequest(p, h) ==
    /\ \A q \in Procs : treq[q].pc = "idle"
    /\ treq' = [treq EXCEPT ![p] = Gated("gate", h, 0, NoBody)]
    /\ UNCHANGED <<now, secret, expiry, codecVars, authVars, todos>>

\* the request leaves the gate: to its handler, or answered
GateLeave(p) ==
    /\ treq[p].pc # "idle"
    /\ treq' = [treq EXCEPT ![p] = TIdle]
    /\ UNCHANGED <<now, secret, expiry, codecVars, authVars, todos>>

GateNext ==
    \/ GateTick
    \/ \E p \in Procs, h \in GateHeaders : GateRequest(p, h)
    \/ \E p \in Procs : GateLeave(p)

SpecGate == GateInit /\ [][GateNext]_vars

\* the request of p is at the gate's exit
AtGate(p) == treq[p].op = "gate" /\ treq[p].pc # "idle"

\* C15: AuthMiddleware lets a request through exactly when its header is
\* the word Bearer in any letter case, one space, and one token string that
\* ValidateToken accepts; a header with another scheme, without separator,
\* with an empty token, with two spaces or with two tokens is answered 401
\* UNAUTHORIZED.
C15_BearerFormat ==
    \A p \in Procs : AtGate(p) =>
        /\ treq[p].ran <=> CredentialAccepted(treq[p].hdr, now)
        /\ treq[p].ran => treq[p].pc = "handler"
        /\ ~treq[p].ran =>
              /\ treq[p].pc = "done"
              /\ treq[p].resp.status = 401
              /\ treq[p].resp.code = "UNAUTHORIZED"

C15_Witness ==
    \E p \in Procs :
        /\ AtGate(p)
        /\ treq[p].ran
        /\ treq[p].hdr = <<Word("BEARER"), ClientToken(2)>>
        /\ treq[p].userID = 2

----------------------------------------------------------------------------
(* A client keeps the first token it is given and presents it again and    *)
(* again, while time passes and the server answers further logins, a       *)
(* registration and todo requests.  genIn is the token kept, tok the token *)
(* the server issued last.                                                 *)

SessionInit ==
    /\ now \in 0..(TicksPerSec - 1)
    /\ secret = "test-secret"
    /\ expiry \in ServiceExpiryChoices
    /\ tok = Garbage
    /\ res = NoResult
    /\ wasExpired = FALSE
    /\ genIn = NoGen
    /\ users = <<[ID |-> 1, Email |-> EmailOf(1), Password |-> Hash("password123")],
                 [ID |-> 2, Email |-> EmailOf(2), Password |-> Hash("password123")]>>
    /\ areq = <<>>
    /\ todos = <<>>
    /\ treq = [p \in Procs |-> TIdle]

SessionTick ==
    /\ \A q \in Procs : treq[q].pc = "idle"
    /\ now < MaxTime
    /\ now' = now + 1
    /\ UNCHANGED <<secret, expiry, codecVars, authVars, todoVars>>

\* the token of a successful Register or Login reaches the client
Returned(user, t1, t2, t3) ==
    LET token == GenerateToken(user.ID, user.Email, t1, t2, t3) IN
    /\ t3 <= MaxSysTime
    /\ now' = t3
    /\ tok' = token
    /\ genIn' = IF genIn.valid THEN genIn
                ELSE [valid |-> TRUE, userID |-> user.ID, email |-> user.Email,
                      t1 |-> t1, t2 |-> t2, t3 |-> t3, token |-> token]
    /\ UNCHANGED <<secret, expiry, res, wasExpired, areq, todoVars>>

\* AuthService.Login of a registered user with the right password
SessionLogin(i, d1, d2) ==
    /\ i \in DOMAIN users
    /\ Returned(users[i], now, now + d1, now + d1 + d2)
    /\ UNCHANGED users

\* AuthService.Register of a third user
SessionRegister(d1, d2) ==
    /\ Len(users) = 2
    /\ users' = Append(users, NewUser("carol@example.com", "password123"))
    /\ Returned(NewUser("carol@example.com", "password123"), now, now + d1, now + d1 + d2)

\* the kept token is presented to a protected route
SessionGate(p) ==
    /\ genIn.valid
    /\ \A q \in Procs : treq[q].pc = "idle"
    /\ treq' = [treq EXCEPT ![p] = Gated("gate", Bearer(genIn.token), 0, NoBody)]
    /\ UNCHANGED <<now, secret, expiry, codecVars, authVars, todos>>

SessionNext ==
    \/ SessionTick
    \/ \E i \in DOMAIN users, d1 \in 0..MaxSkew : \E d2 \in 0..(MaxSkew - d1) :
          SessionLogin(i, d1, d2)
    \/ \E d1 \in 0..MaxSkew : \E d2 \in 0..(MaxSkew - d1) : SessionRegister(d1, d2)
    \/ \E p \in Procs : genIn.valid /\ TodoCreate(p, Bearer(genIn.token), "a", 0)
    \/ \E p \in Procs : SessionGate(p)
    \/ \E p \in Procs : GateLeave(p)

SpecSession == SessionInit /\ [][SessionNext]_vars

\* C16: whenever the token a client was given by Register or Login is
\* presented to AuthMiddleware, it is accepted, with the identity it was
\* issued for, if and only if the clock has not reached its exp, whatever
\* logins, registrations and todo requests the server has answered since.
C16_Stateless ==
    \A p \in Procs : (treq[p].pc # "idle" /\ treq[p].hdr = Bearer(genIn.token)) =>
        /\ treq[p].ran <=> now < genIn.token.claims.exp
        /\ treq[p].ran =>
              treq[p].userID = genIn.userID
                 /\ AuthMiddleware(treq[p].hdr, now).user_email = genIn.email

C16_Witness ==
    \E p \in Procs :
        /\ AtGate(p)
        /\ treq[p].ran
        /\ tok # genIn.token
        /\ tok.claims.user_id = genIn.userID
        /\ Len(users) = 3
        /\ Len(todos) >= 1
        /\ now >= genIn.t3 + TicksPerSec

\* C22: once Register has returned token A to a new identity (the client of
\* the session keeps it), every later Login of that identity that hands out
\* a token other than the one the server issued last hands out a string
\* different from A, carrying the same subject.
C22_FreshToken ==
    [][(/\ genIn.valid /\ genIn.userID = 3
        /\ users' = users
        /\ tok' # tok
        /\ tok'.claims.email = genIn.email)
       => (tok' # genIn.token /\ tok'.claims.user_id = genIn.userID)]_vars

\* C17: the decision of AuthMiddleware and the identity it injects are given
\* by the header, the secret and the clock alone, the same over every
\* content of the users and todos tables (also when the subject of the
\* token is in no row, or its row has another email), and the step of the
\* gate changes neither table.
C17_NoPersistence ==
    [][\A p \in Procs : Arrives(p) =>
          /\ users' = users
          /\ todos' = todos
          /\ treq'[p].ran <=> CredentialAccepted(treq'[p].hdr, now)
          /\ treq'[p].ran =>
                /\ treq'[p].userID = treq'[p].hdr[2].claims.user_id
                /\ AuthMiddleware(treq'[p].hdr, now).user_email =
                      treq'[p].hdr[2].claims.email]_vars

C17_Witness ==
    \E p \in Procs :
        /\ AtGate(p)
        /\ treq[p].ran
        /\ treq[p].userID = 1
        /\ Len(users) = 1
        /\ users[1].Email # treq[p].hdr[2].claims.email
        /\ todos # <<>>

\* C20: every request AuthMiddleware rejects gets the response a request
\* without Authorization header gets, equal in status, code and message,
\* whether its header is malformed or its token is malformed, forged or
\* expired.
C20_UniformUnauthenticated ==
    \A p \in Procs : (AtGate(p) /\ ~treq[p].ran) =>
        /\ treq[p].resp.status = AuthMiddleware(<<>>, now).resp.status
        /\ treq[p].resp.code = AuthMiddleware(<<>>, now).resp.code
        /\ treq[p].resp.message = AuthMiddleware(<<>>, now).resp.message

====
